---- MODULE Spec2Model ----
(***************************************************************************)
(* A model of the Filter API (src/main.py): the dimension parser and       *)
(* validator, the region-label classifier, the geometry predicates, the    *)
(* line deduplicator and the /filter/ handler that combines them.          *)
(*                                                                         *)
(* Units.  Coordinates are integers counting half points, so the           *)
(* deduplication tolerance of 1.0 is 2 and the region buffer of 25 is 50.  *)
(* Stroke widths count tenths of a point (1.5 is 15).  Lengths and angles  *)
(* are whole numbers.  A midpoint, (a + b) / 2 of two half-point           *)
(* coordinates, is kept as a + b, counting quarter points.  A dimension    *)
(* value is the exact decimal fraction num / den: on the short literals    *)
(* drawn here Python's float arithmetic orders and compares these values   *)
(* exactly as the fractions do.                                            *)
(*                                                                         *)
(* Optional[T] is a sequence of length at most one: None is << >>.         *)
(***************************************************************************)
EXTENDS Integers, Sequences, FiniteSets, TLC

VARIABLES
    \* one call of filter_clean: the request, the intermediate lists, the response
    pc, request, filtered_lines, unique_filtered_lines, response,
    \* extract_dimension_value and is_valid_dimension applied to a text
    dim_pc, dim_text, dim_type, dim_value, dim_valid,
    \* remove_duplicate_lines applied to a list, and to its own result
    dd_pc, dd_lines, dd_unique, dd_again,
    \* calculate_orientation applied to a line
    or_pc, or_p1, or_p2, or_angle, or_result,
    \* line_intersects_region applied to a segment and a region
    ir_pc, ir_p1, ir_p2, ir_region, ir_result,
    \* parse_bestektekening_region_type applied to a label
    lb_pc, lb_label, lb_result

fc_vars == <<pc, request, filtered_lines, unique_filtered_lines, response>>
dim_vars == <<dim_pc, dim_text, dim_type, dim_value, dim_valid>>
dd_vars == <<dd_pc, dd_lines, dd_unique, dd_again>>
or_vars == <<or_pc, or_p1, or_p2, or_angle, or_result>>
ir_vars == <<ir_pc, ir_p1, ir_p2, ir_region, ir_result>>
lb_vars == <<lb_pc, lb_label, lb_result>>
vars == <<fc_vars, dim_vars, dd_vars, or_vars, ir_vars, lb_vars>>

None == << >>
Some(v) == <<v>>

(***************************************************************************)
(* Strings.  TLC gives Len, SubSeq and \o on strings; a character is a     *)
(* string of length one.                                                   *)
(***************************************************************************)
CharAt(s, i) == SubSeq(s, i, i)

UpperCase == "ABCDEFGHIJKLMNOPQRSTUVWXYZ"
LowerCase == "abcdefghijklmnopqrstuvwxyz"

\* the lower-case letter of every upper-case letter
LowerOf ==
    [c \in {CharAt(UpperCase, i) : i \in 1..Len(UpperCase)} |->
       CharAt(LowerCase, CHOOSE i \in 1..Len(UpperCase) : CharAt(UpperCase, i) = c)]

\* str.lower() on one character
LowerChar(c) == IF c \in DOMAIN LowerOf THEN LowerOf[c] ELSE c

RECURSIVE lower(_)
\* str.lower()
lower(s) ==
    IF Len(s) = 0 THEN ""
    ELSE LowerChar(CharAt(s, 1)) \o lower(SubSeq(s, 2, Len(s)))

\* the characters str.strip() removes and the regular expressions' \s matches
IsSpace(c) == c \in {" ", "\t", "\n"}

\* the characters \d matches
IsDigit(c) == c \in {"0", "1", "2", "3", "4", "5", "6", "7", "8", "9"}

\* str.strip(): the text between the first and the last non-space character
strip(s) ==
    LET keep == {i \in 1..Len(s) : ~IsSpace(CharAt(s, i))}
    IN  IF keep = {} THEN ""
        ELSE SubSeq(s, CHOOSE i \in keep : \A j \in keep : i <= j,
                       CHOOSE i \in keep : \A j \in keep : j <= i)

\* whether s holds sub at position i
HasAt(s, i, sub) ==
    /\ i + Len(sub) - 1 <= Len(s)
    /\ SubSeq(s, i, i + Len(sub) - 1) = sub

\* Python's `sub in s`
Contains(s, sub) == \E i \in 1..(Len(s) + 1) : HasAt(s, i, sub)

(***************************************************************************)
(* extract_dimension_value: the seven regular expressions, each a          *)
(* sequence of items matched left to right against the whole stripped      *)
(* text under re.IGNORECASE.                                               *)
(*   Number   (\d+(?:[,.]\d+)?)      group 1                               *)
(*   Ws0      \s*                                                          *)
(*   Ws1      \s+                                                          *)
(*   Ch(S)    one character of S (S in lower case)                         *)
(*   Unit(A)  (a1|a2|...)?           group 2                               *)
(***************************************************************************)
Number == [kind |-> "number"]
Ws0 == [kind |-> "ws", least |-> 0]
Ws1 == [kind |-> "ws", least |-> 1]
Ch(S) == [kind |-> "char", chars |-> S]
Unit(A) == [kind |-> "unit", alts |-> A]

MmCmM == {"mm", "cm", "m"}

\* the pattern list with the P-suffix pattern written like the combined
\* ones, [pPvV]: it then overlaps the V-suffix pattern
patterns_pv_suffix == <<
    <<Number, Ws0, Unit(MmCmM)>>,
    <<Ch({"+"}), Number, Ws0, Unit(MmCmM \cup {"p", "v"})>>,
    <<Number, Ws0, Ch({"p", "v"}), Ws0, Unit(MmCmM)>>,
    <<Number, Ws0, Ch({"v"}), Ws0, Unit(MmCmM)>>,
    <<Ch({"+"}), Number, Ws0, Ch({"p", "v"}), Ws0, Unit(MmCmM)>>,
    <<Number, Ws0, Ch({"+"}), Ws0, Ch({"p", "v"}), Ws0, Unit(MmCmM)>>,
    <<Number, Ws1, Ch({"+"}), Ws0, Ch({"p", "v"}), Ws0, Unit(MmCmM)>> >>

patterns == <<
    \* Standard format: 2400mm, 3.5m, 250cm
    <<Number, Ws0, Unit(MmCmM)>>,
    \* With + prefix: +7555, +3000, +6410
    <<Ch({"+"}), Number, Ws0, Unit(MmCmM \cup {"p", "v"})>>,
    \* With P suffix: 7555P, 3000P, 6410P
    <<Number, Ws0, Ch({"p"}), Ws0, Unit(MmCmM)>>,
    \* With V suffix: 7555V, 3000V
    <<Number, Ws0, Ch({"v"}), Ws0, Unit(MmCmM)>>,
    \* Combined formats: +7555P, +3000P, +6410P, +7075P
    <<Ch({"+"}), Number, Ws0, Ch({"p", "v"}), Ws0, Unit(MmCmM)>>,
    \* With + suffix: 6032+p, 3749+p (space variations)
    <<Number, Ws0, Ch({"+"}), Ws0, Ch({"p", "v"}), Ws0, Unit(MmCmM)>>,
    \* Additional space variations: 6032 +p, 3749 + p
    <<Number, Ws1, Ch({"+"}), Ws0, Ch({"p", "v"}), Ws0, Unit(MmCmM)>> >>

\* the positions after a run of one or more digits that starts at i
DigitsEnds(s, i) ==
    {j \in (i + 1)..(Len(s) + 1) : \A k \in i..(j - 1) : IsDigit(CharAt(s, k))}

\* the positions after \d+(?:[,.]\d+)? matched from i
NumberEnds(s, i) ==
    DigitsEnds(s, i) \cup
    UNION {DigitsEnds(s, j + 1) :
             j \in {e \in DigitsEnds(s, i) : e <= Len(s) /\ CharAt(s, e) \in {",", "."}}}

\* the positions after \s* (least = 0) or \s+ (least = 1) matched from i
WsEnds(s, i, least) ==
    {j \in (i + least)..(Len(s) + 1) : \A k \in i..(j - 1) : IsSpace(CharAt(s, k))}

\* A partial match: the next position and the two groups (None: not matched).
\* One item's ways to extend it.
StepItem(item, s, st) ==
    CASE item.kind = "number" ->
           {[pos |-> j, group1 |-> Some(SubSeq(s, st.pos, j - 1)), group2 |-> st.group2] :
              j \in NumberEnds(s, st.pos)}
      [] item.kind = "ws" ->
           {[st EXCEPT !.pos = j] : j \in WsEnds(s, st.pos, item.least)}
      [] item.kind = "char" ->
           IF st.pos <= Len(s) /\ LowerChar(CharAt(s, st.pos)) \in item.chars
           THEN {[st EXCEPT !.pos = st.pos + 1]}
           ELSE {}
      [] item.kind = "unit" ->
           {st} \cup
           {[st EXCEPT !.pos = st.pos + Len(a),
                       !.group2 = Some(SubSeq(s, st.pos, st.pos + Len(a) - 1))] :
              a \in {u \in item.alts :
                       /\ st.pos + Len(u) - 1 <= Len(s)
                       /\ lower(SubSeq(s, st.pos, st.pos + Len(u) - 1)) = u}}

RECURSIVE MatchFrom(_, _, _, _)
\* the partial matches after items k.. of pattern, started from the set sts
MatchFrom(pattern, k, s, sts) ==
    IF k > Len(pattern) THEN sts
    ELSE MatchFrom(pattern, k + 1, s, UNION {StepItem(pattern[k], s, st) : st \in sts})

\* re.match(pattern, s, re.IGNORECASE) with ^...$: the matches of the whole of s
Matches(pattern, s) ==
    {st \in MatchFrom(pattern, 1, s, {[pos |-> 1, group1 |-> None, group2 |-> None]}) :
       st.pos = Len(s) + 1}

\* the value of one digit
DigitVal(c) == CHOOSE d \in 0..9 : CharAt("0123456789", d + 1) = c

RECURSIVE DigitsVal(_)
\* the value of a run of digits
DigitsVal(s) ==
    IF Len(s) = 0 THEN 0
    ELSE 10 * DigitsVal(SubSeq(s, 1, Len(s) - 1)) + DigitVal(CharAt(s, Len(s)))

RECURSIVE Pow10(_)
Pow10(n) == IF n = 0 THEN 1 ELSE 10 * Pow10(n - 1)

\* float(value_str.replace(',', '.')): the decimal fraction num / den
float(value_str) ==
    LET seps == {i \in 1..Len(value_str) : CharAt(value_str, i) \in {",", "."}}
    IN  IF seps = {} THEN [num |-> DigitsVal(value_str), den |-> 1]
        ELSE LET i == CHOOSE x \in seps : TRUE
                 whole == SubSeq(value_str, 1, i - 1)
                 frac == SubSeq(value_str, i + 1, Len(value_str))
             IN  [num |-> DigitsVal(whole) * Pow10(Len(frac)) + DigitsVal(frac),
                  den |-> Pow10(Len(frac))]

\* value * k
Times(value, k) == [num |-> value.num * k, den |-> value.den]

\* the conversion without the test that group 2 is one of mm, cm, m: whatever
\* group 2 holds and is not cm or mm is read as m
MatchValue_any_unit(match) ==
    LET value == float(match.group1[1])
        unit == match.group2
    IN  IF unit # None
        THEN IF lower(unit[1]) = "cm" THEN Times(value, 10)
             ELSE IF lower(unit[1]) = "mm" THEN value
             ELSE Times(value, 1000)
        ELSE value

\* the conversion with cm read as a hundredth of a meter in millimeters
MatchValue_cm_100(match) ==
    LET value == float(match.group1[1])
        unit == match.group2
    IN  IF unit # None /\ lower(unit[1]) \in {"mm", "cm", "m"}
        THEN IF lower(unit[1]) = "cm" THEN Times(value, 100)
             ELSE IF lower(unit[1]) = "m" THEN Times(value, 1000)
             ELSE value
        ELSE value

\* lines 207-223: the millimeter value of one match
MatchValue(match) ==
    LET value == float(match.group1[1])
        unit == match.group2
    IN  IF unit # None /\ lower(unit[1]) \in {"mm", "cm", "m"}
        THEN IF lower(unit[1]) = "cm" THEN Times(value, 10)
             ELSE IF lower(unit[1]) = "m" THEN Times(value, 1000)
             ELSE value
        ELSE value

RECURSIVE FirstMatch(_, _, _)
\* lines 204-225: the value of the first pattern of the list, from the k-th
\* on, that matches text_clean
FirstMatch(pattern_list, k, text_clean) ==
    IF k > Len(pattern_list) THEN None
    ELSE LET found == Matches(pattern_list[k], text_clean)
         IN  IF found # {}
             THEN Some(MatchValue(CHOOSE m \in found : TRUE))
             ELSE FirstMatch(pattern_list, k + 1, text_clean)

extract_dimension_value(text) == FirstMatch(patterns, 1, strip(text))

\* extracted_value < n and extracted_value > n
ValueLess(value, n) == value.num < n * value.den
ValueGreater(value, n) == value.num > n * value.den

\* the validator with the minimum excluded (<= where the code has <)
is_valid_dimension_exclusive_min(text, drawing_type) ==
    IF Len(text) = 0 \/ Len(strip(text)) = 0 THEN FALSE
    ELSE LET extracted_value == extract_dimension_value(strip(text))
         IN  IF extracted_value = None THEN FALSE
             ELSE IF drawing_type = "plattegrond" /\ ~ValueGreater(extracted_value[1], 500)
                  THEN FALSE
             ELSE IF drawing_type # "plattegrond" /\ ~ValueGreater(extracted_value[1], 100)
                  THEN FALSE
             ELSE IF ValueGreater(extracted_value[1], 100000) THEN FALSE
             ELSE TRUE

is_valid_dimension(text, drawing_type) ==
    IF Len(text) = 0 \/ Len(strip(text)) = 0 THEN FALSE
    ELSE LET extracted_value == extract_dimension_value(strip(text))
         IN  IF extracted_value = None THEN FALSE
             ELSE IF drawing_type = "plattegrond" /\ ValueLess(extracted_value[1], 500)
                  THEN FALSE
             ELSE IF drawing_type # "plattegrond" /\ ValueLess(extracted_value[1], 100)
                  THEN FALSE
             ELSE IF ValueGreater(extracted_value[1], 100000) THEN FALSE
             ELSE TRUE

(***************************************************************************)
(* parse_bestektekening_region_type                                        *)
(***************************************************************************)
\* str.find(c) as a position counted from 1 (0: not found)
Find(s, c) ==
    IF Contains(s, c)
    THEN CHOOSE i \in 1..Len(s) : HasAt(s, i, c) /\ \A j \in 1..(i - 1) : ~HasAt(s, j, c)
    ELSE 0

\* s[start:end] for the characters at positions from..to counted from 1
Slice(s, from, to) == IF from > to THEN "" ELSE SubSeq(s, from, to)

valid_types ==
    {"plattegrond", "doorsnede", "gevelaanzicht",
     "detailtekening_kozijn", "detailtekening_plattegrond", "detailtekening"}

\* lines 94-132 with the keyword matching of lines 119-132 tried first
parse_bestektekening_region_type_keywords_first(region_label) ==
    LET extracted_type ==
            strip(Slice(region_label, Find(region_label, "(") + 1, Find(region_label, ")") - 1))
        label_lower == lower(region_label)
    IN  IF \/ Contains(label_lower, "plattegrond")
           \/ Contains(label_lower, "grond")
           \/ Contains(label_lower, "verdieping")
        THEN "plattegrond"
        ELSE IF Contains(label_lower, "gevel") \/ Contains(label_lower, "aanzicht")
             THEN "gevelaanzicht"
        ELSE IF Contains(label_lower, "doorsnede") THEN "doorsnede"
        ELSE IF /\ Contains(region_label, "(")
                /\ Contains(region_label, ")")
                /\ extracted_type \in valid_types
             THEN extracted_type
        ELSE IF Contains(label_lower, "detail")
             THEN IF \/ Contains(label_lower, "kozijn")
                     \/ Contains(label_lower, "raam")
                     \/ Contains(label_lower, "deur")
                  THEN "detailtekening_kozijn"
                  ELSE "detailtekening"
        ELSE "unknown"

parse_bestektekening_region_type(region_label) ==
    LET extracted_type ==
            strip(Slice(region_label, Find(region_label, "(") + 1, Find(region_label, ")") - 1))
        label_lower == lower(region_label)
    IN  IF /\ Contains(region_label, "(")
           /\ Contains(region_label, ")")
           /\ extracted_type \in valid_types
        THEN extracted_type
        ELSE IF \/ Contains(label_lower, "plattegrond")
                \/ Contains(label_lower, "grond")
                \/ Contains(label_lower, "verdieping")
             THEN "plattegrond"
        ELSE IF Contains(label_lower, "gevel") \/ Contains(label_lower, "aanzicht")
             THEN "gevelaanzicht"
        ELSE IF Contains(label_lower, "doorsnede") THEN "doorsnede"
        ELSE IF Contains(label_lower, "detail")
             THEN IF \/ Contains(label_lower, "kozijn")
                     \/ Contains(label_lower, "raam")
                     \/ Contains(label_lower, "deur")
                  THEN "detailtekening_kozijn"
                  ELSE "detailtekening"
        ELSE "unknown"

(***************************************************************************)
(* calculate_orientation, calculate_midpoint, calculate_text_midpoint      *)
(***************************************************************************)
Abs(a) == IF a < 0 THEN -a ELSE a

\* math.degrees(math.atan2(dy, dx)) < 15 for dx > 0, dy >= 0:
\* dy / dx < tan 15 = 2 - sqrt 3, that is sqrt 3 * dx < 2 * dx - dy
AtanBelow15(dy, dx) ==
    2 * dx - dy > 0 /\ 3 * dx * dx < (2 * dx - dy) * (2 * dx - dy)

\* 75 < math.degrees(math.atan2(dy, dx)) for dx > 0, dy > 0: dx / dy < tan 15
AtanAbove75(dy, dx) == AtanBelow15(dx, dy)

\* the orientation with the deltas taken in the direction of the line
calculate_orientation_directed(p1, p2, angle) ==
    IF angle # None
    THEN LET normalized_angle == Abs(angle[1] % 180)
         IN  IF normalized_angle < 15 \/ normalized_angle > 165 THEN "vertical"
             ELSE IF 75 < normalized_angle /\ normalized_angle < 105 THEN "horizontal"
             ELSE "diagonal"
    ELSE LET dx == p2[1] - p1[1]
             dy == p2[2] - p1[2]
         IN  IF dx < 2 THEN "horizontal"
             ELSE IF dy < 2 THEN "vertical"
             ELSE IF AtanBelow15(dy, dx) THEN "vertical"
             ELSE IF AtanAbove75(dy, dx) THEN "horizontal"
             ELSE "diagonal"

\* dx < 1 and dy < 1 are dx < 2 and dy < 2 in half points.  With dx >= 1 and
\* dy >= 1 the angle lies strictly between 0 and 90 degrees, so of the tests
\* of lines 155 and 157 only angle_deg < 15 and 75 < angle_deg can decide.
calculate_orientation(p1, p2, angle) ==
    IF angle # None
    THEN LET normalized_angle == Abs(angle[1] % 180)
         IN  IF normalized_angle < 15 \/ normalized_angle > 165 THEN "vertical"
             ELSE IF 75 < normalized_angle /\ normalized_angle < 105 THEN "horizontal"
             ELSE "diagonal"
    ELSE LET dx == Abs(p2[1] - p1[1])
             dy == Abs(p2[2] - p1[2])
         IN  IF dx < 2 THEN "horizontal"
             ELSE IF dy < 2 THEN "vertical"
             ELSE IF AtanBelow15(dy, dx) THEN "vertical"
             ELSE IF AtanAbove75(dy, dx) THEN "horizontal"
             ELSE "diagonal"

\* in quarter points
calculate_midpoint(p1, p2) == [x |-> p1[1] + p2[1], y |-> p1[2] + p2[2]]

\* in quarter points
calculate_text_midpoint(bbox) == [x |-> bbox[1] + bbox[3], y |-> bbox[2] + bbox[4]]

(***************************************************************************)
(* line_intersects_region, text_overlaps_region                            *)
(***************************************************************************)
Min(a, b) == IF a < b THEN a ELSE b
Max(a, b) == IF a < b THEN b ELSE a

\* the 25 point buffer, in half points
buffer == 50

\* (q - p) x (c - p): its sign tells the side of the line p q that c is on
Cross(p, q, c) == (q[1] - p[1]) * (c[2] - p[2]) - (q[2] - p[2]) * (c[1] - p[1])

\* LineString([p, q]).intersects(box(b[1], b[2], b[3], b[4])): the segment
\* and the closed rectangle share a point, which is when their bounding
\* boxes overlap and the rectangle's corners are not all strictly on one
\* side of the line through p and q
ShapelyIntersects(p, q, b) ==
    LET minx == Min(b[1], b[3])
        maxx == Max(b[1], b[3])
        miny == Min(b[2], b[4])
        maxy == Max(b[2], b[4])
        sides == {Cross(p, q, c) : c \in {<<minx, miny>>, <<minx, maxy>>,
                                          <<maxx, miny>>, <<maxx, maxy>>}}
    IN  /\ ~(Max(p[1], q[1]) < minx \/ Min(p[1], q[1]) > maxx)
        /\ ~(Max(p[2], q[2]) < miny \/ Min(p[2], q[2]) > maxy)
        /\ ~(\A c \in sides : c > 0)
        /\ ~(\A c \in sides : c < 0)

\* lines 263-292 without the Shapely test: overlapping bounding boxes suffice
line_intersects_region_bbox_only(line_p1, line_p2, region) ==
    LET expanded_region == <<region[1] - buffer, region[2] - buffer,
                             region[3] + buffer, region[4] + buffer>>
    IN  /\ Max(line_p1[1], line_p2[1]) >= expanded_region[1]
        /\ Min(line_p1[1], line_p2[1]) <= expanded_region[3]
        /\ Max(line_p1[2], line_p2[2]) >= expanded_region[2]
        /\ Min(line_p1[2], line_p2[2]) <= expanded_region[4]

line_intersects_region(line_p1, line_p2, region) ==
    LET expanded_region == <<region[1] - buffer, region[2] - buffer,
                             region[3] + buffer, region[4] + buffer>>
        line_min_x == Min(line_p1[1], line_p2[1])
        line_max_x == Max(line_p1[1], line_p2[1])
        line_min_y == Min(line_p1[2], line_p2[2])
        line_max_y == Max(line_p1[2], line_p2[2])
    IN  IF \E pt \in {line_p1, line_p2} :
             /\ expanded_region[1] <= pt[1] /\ pt[1] <= expanded_region[3]
             /\ expanded_region[2] <= pt[2] /\ pt[2] <= expanded_region[4]
        THEN TRUE
        ELSE IF \/ line_max_x < expanded_region[1]
                \/ line_min_x > expanded_region[3]
                \/ line_max_y < expanded_region[2]
                \/ line_min_y > expanded_region[4]
             THEN FALSE
        ELSE ShapelyIntersects(line_p1, line_p2, expanded_region)

text_overlaps_region(text, region) ==
    LET expanded_region == <<region[1] - buffer, region[2] - buffer,
                             region[3] + buffer, region[4] + buffer>>
    IN  ~(\/ text.bounding_box[3] < expanded_region[1]
          \/ text.bounding_box[1] > expanded_region[3]
          \/ text.bounding_box[4] < expanded_region[2]
          \/ text.bounding_box[2] > expanded_region[4])

(***************************************************************************)
(* should_include_line, should_include_text                                *)
(***************************************************************************)
\* (line.stroke_width <= S and line.length >= L) or line.is_dashed, S in
\* tenths of a point
Rule(line, S, L) == (line.stroke_width <= S /\ line.length >= L) \/ line.is_dashed

\* the rules with the gevelaanzicht row given the plattegrond length
should_include_line_gevel_50(line, drawing_type, region_label) ==
    LET type == IF drawing_type = "bestektekening"
                THEN parse_bestektekening_region_type(region_label)
                ELSE drawing_type
    IN  IF type = "installatietekening" /\ drawing_type # "bestektekening" THEN FALSE
        ELSE IF type \in {"plattegrond", "gevelaanzicht"} THEN Rule(line, 15, 50)
        ELSE IF type = "doorsnede" THEN Rule(line, 15, 40)
        ELSE IF type \in {"detailtekening", "detailtekening_kozijn",
                          "detailtekening_plattegrond"} THEN Rule(line, 10, 20)
        ELSE Rule(line, 15, 30)

should_include_line(line, drawing_type, region_label) ==
    IF drawing_type = "bestektekening"
    THEN LET region_drawing_type == parse_bestektekening_region_type(region_label)
         IN  IF region_drawing_type = "plattegrond" THEN Rule(line, 15, 50)
             ELSE IF region_drawing_type = "gevelaanzicht" THEN Rule(line, 15, 40)
             ELSE IF region_drawing_type = "doorsnede" THEN Rule(line, 15, 40)
             ELSE IF region_drawing_type \in {"detailtekening_kozijn",
                                              "detailtekening_plattegrond",
                                              "detailtekening"}
                  THEN Rule(line, 10, 20)
             ELSE Rule(line, 15, 30)
    ELSE IF drawing_type = "plattegrond" THEN Rule(line, 15, 50)
    ELSE IF drawing_type = "gevelaanzicht" THEN Rule(line, 15, 40)
    ELSE IF drawing_type = "doorsnede" THEN Rule(line, 15, 40)
    ELSE IF drawing_type \in {"detailtekening", "detailtekening_kozijn",
                              "detailtekening_plattegrond"}
         THEN Rule(line, 10, 20)
    ELSE IF drawing_type = "installatietekening" THEN FALSE
    ELSE Rule(line, 15, 30)

\* the text rule that always validates against the page's drawing type
should_include_text_page_type(text, drawing_type, region_label) ==
    IF drawing_type = "installatietekening" THEN FALSE
    ELSE is_valid_dimension(text.text, drawing_type)

should_include_text(text, drawing_type, region_label) ==
    LET effective_drawing_type ==
            IF drawing_type = "bestektekening"
            THEN parse_bestektekening_region_type(region_label)
            ELSE drawing_type
    IN  IF effective_drawing_type = "installatietekening" THEN FALSE
        ELSE is_valid_dimension(text.text, effective_drawing_type)

(***************************************************************************)
(* remove_duplicate_lines                                                  *)
(***************************************************************************)
\* 1.0 point, in half points
tolerance == 2

\* line 377 without its second disjunct: only same-direction twins
IsDuplicate_same_direction(line, existing_line) ==
    /\ Abs(line.p1[1] - existing_line.p1[1]) < tolerance
    /\ Abs(line.p1[2] - existing_line.p1[2]) < tolerance
    /\ Abs(line.p2[1] - existing_line.p2[1]) < tolerance
    /\ Abs(line.p2[2] - existing_line.p2[2]) < tolerance

\* lines 367-377
IsDuplicate(line, existing_line) ==
    LET p1_match == /\ Abs(line.p1[1] - existing_line.p1[1]) < tolerance
                    /\ Abs(line.p1[2] - existing_line.p1[2]) < tolerance
        p2_match == /\ Abs(line.p2[1] - existing_line.p2[1]) < tolerance
                    /\ Abs(line.p2[2] - existing_line.p2[2]) < tolerance
        p1_reverse == /\ Abs(line.p1[1] - existing_line.p2[1]) < tolerance
                      /\ Abs(line.p1[2] - existing_line.p2[2]) < tolerance
        p2_reverse == /\ Abs(line.p2[1] - existing_line.p1[1]) < tolerance
                      /\ Abs(line.p2[2] - existing_line.p1[2]) < tolerance
    IN  (p1_match /\ p2_match) \/ (p1_reverse /\ p2_reverse)

RECURSIVE RemoveInPlace(_, _)
\* a deduplication that deletes from the list it is walking: after a
\* deletion at position i the walk goes on at i + 1, past the line that
\* moved into position i
RemoveInPlace(lines, i) ==
    IF i > Len(lines) THEN lines
    ELSE IF \E j \in 1..(i - 1) : IsDuplicate(lines[i], lines[j])
         THEN RemoveInPlace(SubSeq(lines, 1, i - 1) \o SubSeq(lines, i + 1, Len(lines)), i + 1)
         ELSE RemoveInPlace(lines, i + 1)

remove_duplicate_lines_in_place(lines) == RemoveInPlace(lines, 1)

RECURSIVE UniqueFrom(_, _, _)
\* lines 363-382: the loop from the i-th line on, unique_lines so far
UniqueFrom(lines, i, unique_lines) ==
    IF i > Len(lines) THEN unique_lines
    ELSE LET is_duplicate ==
                 \E k \in 1..Len(unique_lines) : IsDuplicate(lines[i], unique_lines[k])
         IN  UniqueFrom(lines, i + 1,
                        IF is_duplicate THEN unique_lines ELSE Append(unique_lines, lines[i]))

remove_duplicate_lines(lines) == UniqueFrom(lines, 1, << >>)

(***************************************************************************)
(* filter_clean                                                            *)
(***************************************************************************)
\* line 527 with the test left out
IsSkipped_never(drawing_type) == FALSE

\* line 527
IsSkipped(drawing_type) == drawing_type = "installatietekening"

\* lines 534-545 with 30 for the 20 of line 538
Step1_length_30(lines, drawing_type) ==
    LET Keep(line) ==
            IF drawing_type = "bestektekening"
            THEN (line.stroke_width <= 15 /\ line.length >= 30) \/ line.is_dashed
            ELSE should_include_line(line, drawing_type, "")
    IN  SelectSeq(lines, Keep)

\* STEP 1, lines 534-545
Step1(lines, drawing_type) ==
    LET Keep(line) ==
            IF drawing_type = "bestektekening"
            THEN (line.stroke_width <= 15 /\ line.length >= 20) \/ line.is_dashed
            ELSE should_include_line(line, drawing_type, "")
    IN  SelectSeq(lines, Keep)

\* STEP 2, lines 551-554
Step2(lines) == IF Len(lines) > 0 THEN remove_duplicate_lines(lines) ELSE lines

\* lines 588-592 and 598-602
FilteredLine(line) ==
    [length |-> line.length,
     orientation |-> calculate_orientation(line.p1, line.p2, line.angle),
     midpoint |-> calculate_midpoint(line.p1, line.p2)]

\* lines 621-624
FilteredText(text) ==
    [text |-> text.text, midpoint |-> calculate_text_midpoint(text.bounding_box)]

\* lines 563-638 without the test of line 571: the label is classified on
\* every page type
RegionData_always_parsed(region, unique_lines, texts, drawing_type) ==
    LET LineIn(line) ==
            /\ line_intersects_region(line.p1, line.p2, region.coordinate_block)
            /\ drawing_type = "bestektekening" =>
                 should_include_line(line, drawing_type, region.label)
        TextIn(text) ==
            /\ text_overlaps_region(text, region.coordinate_block)
            /\ should_include_text(text, drawing_type, region.label)
        region_lines == SelectSeq(unique_lines, LineIn)
        region_texts == SelectSeq(texts, TextIn)
    IN  [label |-> region.label,
         lines |-> [i \in 1..Len(region_lines) |-> FilteredLine(region_lines[i])],
         texts |-> [i \in 1..Len(region_texts) |-> FilteredText(region_texts[i])],
         parsed_drawing_type |-> Some(parse_bestektekening_region_type(region.label))]

\* STEP 3, lines 563-638: one region's entry
RegionData(region, unique_lines, texts, drawing_type) ==
    LET parsed_drawing_type ==
            IF drawing_type = "bestektekening"
            THEN Some(parse_bestektekening_region_type(region.label))
            ELSE None
        LineIn(line) ==
            /\ line_intersects_region(line.p1, line.p2, region.coordinate_block)
            /\ drawing_type = "bestektekening" =>
                 should_include_line(line, drawing_type, region.label)
        TextIn(text) ==
            /\ text_overlaps_region(text, region.coordinate_block)
            /\ should_include_text(text, drawing_type, region.label)
        region_lines == SelectSeq(unique_lines, LineIn)
        region_texts == SelectSeq(texts, TextIn)
    IN  [label |-> region.label,
         lines |-> [i \in 1..Len(region_lines) |-> FilteredLine(region_lines[i])],
         texts |-> [i \in 1..Len(region_texts) |-> FilteredText(region_texts[i])],
         parsed_drawing_type |-> parsed_drawing_type]

\* a returned CleanOutput: status 200
Returned(output) == [status_code |-> 200, detail |-> "", body |-> Some(output)]

\* a raised HTTPException
Raised(status_code, detail) == [status_code |-> status_code, detail |-> detail, body |-> None]

\* str(e) of the HTTPException of line 514: "400: No pages in vector_data"
\* where the installed Starlette defines HTTPException.__str__, "" where it
\* does not
StrOfNoPages == {"400: No pages in vector_data", ""}

\* lines 509-660.  The HTTPException of line 514 is raised inside the try
\* block, so the handler of line 658 catches it like any other exception
\* and line 660 raises a new one with status 500.
FilterClean(input_data) ==
    /\ pc = "ready"
    /\ pc' = "done"
    /\ request' = Some(input_data)
    /\ IF Len(input_data.vector_data.pages) = 0
       THEN /\ \E str \in StrOfNoPages :
                 response' = Some(Raised(500, "Internal server error: " \o str))
            /\ UNCHANGED <<filtered_lines, unique_filtered_lines>>
       ELSE LET vector_page == input_data.vector_data.pages[1]
                drawing_type == input_data.vision_output.drawing_type
                regions == input_data.vision_output.regions
                filtered == Step1(vector_page.lines, drawing_type)
                unique == Step2(filtered)
            IN  IF IsSkipped(drawing_type)
                THEN /\ response' =
                          Some(Returned([drawing_type |-> drawing_type, regions |-> << >>]))
                     /\ UNCHANGED <<filtered_lines, unique_filtered_lines>>
                ELSE /\ filtered_lines' = Some(filtered)
                     /\ unique_filtered_lines' = Some(unique)
                     /\ response' =
                          Some(Returned([drawing_type |-> drawing_type,
                                         regions |->
                                           [r \in 1..Len(regions) |->
                                              RegionData(regions[r], unique,
                                                         vector_page.texts, drawing_type)]]))
    /\ UNCHANGED <<dim_vars, dd_vars, or_vars, ir_vars, lb_vars>>

(***************************************************************************)
(* Each specification below exercises one part; the variables of the other *)
(* parts then stay as these predicates leave them.                         *)
(***************************************************************************)
FcIdle ==
    /\ pc = "off"
    /\ request = None
    /\ filtered_lines = None
    /\ unique_filtered_lines = None
    /\ response = None

DimIdle ==
    /\ dim_pc = "off"
    /\ dim_text = ""
    /\ dim_type = ""
    /\ dim_value = None
    /\ dim_valid = FALSE

DdIdle ==
    /\ dd_pc = "off"
    /\ dd_lines = << >>
    /\ dd_unique = << >>
    /\ dd_again = << >>

OrIdle ==
    /\ or_pc = "off"
    /\ or_p1 = <<0, 0>>
    /\ or_p2 = <<0, 0>>
    /\ or_angle = None
    /\ or_result = ""

IrIdle ==
    /\ ir_pc = "off"
    /\ ir_p1 = <<0, 0>>
    /\ ir_p2 = <<0, 0>>
    /\ ir_region = <<0, 0, 0, 0>>
    /\ ir_result = FALSE

LbIdle ==
    /\ lb_pc = "off"
    /\ lb_label = ""
    /\ lb_result = ""

(***************************************************************************)
(* The parser and validator on their own: a text is drawn, then either     *)
(* function is applied to it.                                              *)
(***************************************************************************)
MaxLen == 4

Alphabet == {"1", ".", " ", "+", "p", "V", "m", "c"}

RECURSIVE StringsUpTo(_)
\* every string over Alphabet of length at most n
StringsUpTo(n) ==
    IF n = 0 THEN {""}
    ELSE LET shorter == StringsUpTo(n - 1)
         IN  shorter \cup {s \o c : s \in shorter, c \in Alphabet}

SampleTexts ==
    {"2400mm", "3.5m", "250cm", "+7555P", "6032+p", "3749 + p", "abc",
     "499", "500", "99", "100", "100000", "100001", "49,9cm", "0.5m",
     "100m", "100.1m", "7555V", " 3000 P mm ", "+6410 v cm", "2,4 M"}

DimTexts == StringsUpTo(MaxLen) \cup SampleTexts

DimTypes == {"plattegrond", "doorsnede", "unknown", "general"}

DimInit ==
    /\ dim_pc = "input"
    /\ dim_text \in DimTexts
    /\ dim_type = ""
    /\ dim_value = None
    /\ dim_valid = FALSE
    /\ FcIdle /\ DdIdle /\ OrIdle /\ IrIdle /\ LbIdle

ExtractDimensionValue ==
    /\ dim_pc = "input"
    /\ dim_pc' = "extracted"
    /\ dim_value' = extract_dimension_value(dim_text)
    /\ UNCHANGED <<dim_text, dim_type, dim_valid>>
    /\ UNCHANGED <<fc_vars, dd_vars, or_vars, ir_vars, lb_vars>>

IsValidDimension ==
    /\ dim_pc = "input"
    /\ \E drawing_type \in DimTypes :
         /\ dim_type' = drawing_type
         /\ dim_valid' = is_valid_dimension(dim_text, drawing_type)
    /\ dim_pc' = "validated"
    /\ UNCHANGED <<dim_text, dim_value>>
    /\ UNCHANGED <<fc_vars, dd_vars, or_vars, ir_vars, lb_vars>>

DimNext == ExtractDimensionValue \/ IsValidDimension

SpecDim == DimInit /\ [][DimNext]_vars

(***************************************************************************)
(* The claims about the parser and the validator (under SpecDim).          *)
(***************************************************************************)
\* value == n, for a whole number n
ValueEquals(value, n) == value.num = n * value.den

\* the patterns that match the whole stripped text
MatchingPatterns(text) ==
    {k \in 1..Len(patterns) : Matches(patterns[k], strip(text)) # {}}

\* the value pattern k gives for a text it matches
PatternValue(k, text) ==
    MatchValue(CHOOSE m \in Matches(patterns[k], strip(text)) : TRUE)

\* C4: is_valid_dimension is true exactly when the text parses to a value v
\* with min <= v <= 100000, min being 500 for plattegrond and 100 for every
\* other type; both bounds are inclusive, and a blank or unparsable text is
\* invalid.
C4_ValidityBounds ==
    dim_pc = "validated" =>
      LET parsed == extract_dimension_value(dim_text)
          least == IF dim_type = "plattegrond" THEN 500 ELSE 100
      IN  /\ dim_valid <=>
               /\ parsed # None
               /\ least * parsed[1].den <= parsed[1].num
               /\ parsed[1].num <= 100000 * parsed[1].den
          /\ dim_text = "499" /\ dim_type = "plattegrond" => ~dim_valid
          /\ dim_text = "500" /\ dim_type = "plattegrond" => dim_valid
          /\ dim_text = "99" => ~dim_valid
          /\ dim_text = "100" /\ dim_type # "plattegrond" => dim_valid
          /\ dim_text = "100000" => dim_valid
          /\ dim_text = "100001" => ~dim_valid
          /\ dim_text \in {"", " ", "  ", "abc"} => ~dim_valid

C4_Witness ==
    /\ dim_pc = "validated"
    /\ dim_text = "500"
    /\ dim_type = "plattegrond"
    /\ dim_valid

\* The claim's reading of an accepted text, taken from the text alone: the
\* literal is the run of digits and separators after an optional leading
\* '+', the unit is what the text ends with.
LiteralOf(s) ==
    LET from == IF Len(s) > 0 /\ CharAt(s, 1) = "+" THEN 2 ELSE 1
        run == {j \in from..Len(s) :
                  \A k \in from..j : IsDigit(CharAt(s, k)) \/ CharAt(s, k) \in {",", "."}}
    IN  SubSeq(s, from, from + Cardinality(run) - 1)

EndsWith(s, suffix) ==
    /\ Len(suffix) <= Len(s)
    /\ lower(SubSeq(s, Len(s) - Len(suffix) + 1, Len(s))) = suffix

TrailingFactor(s) ==
    IF EndsWith(s, "cm") THEN 10
    ELSE IF EndsWith(s, "mm") THEN 1
    ELSE IF EndsWith(s, "m") THEN 1000
    ELSE 1

\* C5: an accepted text yields its numeric literal times 10 (cm), 1000 (m)
\* or 1 (mm, or no unit); a leading '+' and a p/v marker change nothing; the
\* spec's six examples parse to the stated values and "abc" yields no value.
C5_UnitConversion ==
    dim_pc = "extracted" =>
      /\ dim_value # None =>
           LET s == strip(dim_text)
               expected == Times(float(LiteralOf(s)), TrailingFactor(s))
           IN  dim_value[1].num * expected.den = expected.num * dim_value[1].den
      /\ dim_text = "2400mm" => dim_value # None /\ ValueEquals(dim_value[1], 2400)
      /\ dim_text = "3.5m" => dim_value # None /\ ValueEquals(dim_value[1], 3500)
      /\ dim_text = "250cm" => dim_value # None /\ ValueEquals(dim_value[1], 2500)
      /\ dim_text = "+7555P" => dim_value # None /\ ValueEquals(dim_value[1], 7555)
      /\ dim_text = "6032+p" => dim_value # None /\ ValueEquals(dim_value[1], 6032)
      /\ dim_text = "3749 + p" => dim_value # None /\ ValueEquals(dim_value[1], 3749)
      /\ dim_text = "abc" => dim_value = None
      /\ MatchingPatterns(dim_text) = {} => dim_value = None

C5_Witness ==
    /\ dim_pc = "extracted"
    /\ dim_text = "250cm"
    /\ dim_value # None
    /\ ValueEquals(dim_value[1], 2500)

\* C6 as stated: exactly one of the seven patterns matches an accepted text.
C6_ExactlyOnePattern ==
    dim_pc = "extracted" /\ dim_value # None =>
      Cardinality(MatchingPatterns(dim_text)) = 1

\* C6, amended: an accepted text is matched by exactly one of the patterns
\* 1-6, or by the two patterns 2 and 5 (a '+', the number and a bare p/v
\* marker), or by the two patterns 6 and 7 (white space between the number
\* and the '+' of a '+p' / '+v' suffix); never by more than two.
C6_AtMostTwoPatterns ==
    dim_pc = "extracted" /\ dim_value # None =>
      LET s == strip(dim_text)
          matching == MatchingPatterns(dim_text)
      IN  /\ matching \in {{1}, {2}, {3}, {4}, {5}, {6}, {2, 5}, {6, 7}}
          /\ matching = {2, 5} <=>
               /\ CharAt(s, 1) = "+"
               /\ LowerChar(CharAt(s, Len(s))) \in {"p", "v"}
          /\ matching = {6, 7} <=>
               \E i \in 2..Len(s) : CharAt(s, i) = "+" /\ IsSpace(CharAt(s, i - 1))

C6_Witness ==
    /\ dim_pc = "extracted"
    /\ dim_value # None
    /\ MatchingPatterns(dim_text) = {2, 5}

\* the pattern list with its k-th pattern moved to the front
MovedToFront(k) ==
    <<patterns[k]>> \o SubSeq(patterns, 1, k - 1) \o SubSeq(patterns, k + 1, Len(patterns))

\* the pattern list reversed
Reversed == [i \in 1..Len(patterns) |-> patterns[Len(patterns) + 1 - i]]

SameResult(a, b) ==
    \/ a = None /\ b = None
    \/ a # None /\ b # None /\ a[1].num * b[1].den = b[1].num * a[1].den

\* C7: every pattern that matches a text yields the value the parser
\* returns, so the order of the patterns does not matter.  The result of a
\* permuted list is the value of the matching pattern that comes first in
\* it, so the seven lists that start with a different pattern, and the
\* reversed list, show every result a permutation can give.
C7_OrderIndependent ==
    dim_pc = "extracted" =>
      /\ \A k \in MatchingPatterns(dim_text) :
           SameResult(Some(PatternValue(k, dim_text)), dim_value)
      /\ \A k \in 1..Len(patterns) :
           SameResult(FirstMatch(MovedToFront(k), 1, strip(dim_text)), dim_value)
      /\ SameResult(FirstMatch(Reversed, 1, strip(dim_text)), dim_value)

C7_Witness ==
    /\ dim_pc = "extracted"
    /\ dim_value # None
    /\ MatchingPatterns(dim_text) = {6, 7}

(***************************************************************************)
(* remove_duplicate_lines on its own: a list of lines is drawn, the        *)
(* function is applied to it, and then to its own result.                  *)
(***************************************************************************)
MaxDedupeLines == 3

\* every sequence over S of length at most n
RECURSIVE SeqsUpTo(_, _)
SeqsUpTo(S, n) ==
    IF n = 0 THEN {<< >>}
    ELSE LET shorter == SeqsUpTo(S, n - 1)
         IN  shorter \cup {Append(q, x) : q \in shorter, x \in S}

\* a line of the page: VectorLine without its colour
Line(p1, p2, stroke_width, length, is_dashed, angle) ==
    [p1 |-> p1, p2 |-> p2, stroke_width |-> stroke_width, length |-> length,
     is_dashed |-> is_dashed, angle |-> angle]

\* end points half a point apart, so that a ~ b and b ~ c without a ~ c
DedupePoints == {<<0, 0>>, <<1, 0>>, <<2, 0>>, <<0, 2>>}

DedupeLines == {Line(a, b, 10, 100, FALSE, None) : a \in DedupePoints, b \in DedupePoints}

DdInit ==
    /\ dd_pc = "input"
    /\ dd_lines \in SeqsUpTo(DedupeLines, MaxDedupeLines)
    /\ dd_unique = << >>
    /\ dd_again = << >>
    /\ FcIdle /\ DimIdle /\ OrIdle /\ IrIdle /\ LbIdle

RemoveDuplicateLines ==
    /\ dd_pc = "input"
    /\ dd_pc' = "once"
    /\ dd_unique' = remove_duplicate_lines(dd_lines)
    /\ UNCHANGED <<dd_lines, dd_again>>
    /\ UNCHANGED <<fc_vars, dim_vars, or_vars, ir_vars, lb_vars>>

RemoveDuplicateLinesAgain ==
    /\ dd_pc = "once"
    /\ dd_pc' = "twice"
    /\ dd_again' = remove_duplicate_lines(dd_unique)
    /\ UNCHANGED <<dd_lines, dd_unique>>
    /\ UNCHANGED <<fc_vars, dim_vars, or_vars, ir_vars, lb_vars>>

DdNext == RemoveDuplicateLines \/ RemoveDuplicateLinesAgain

SpecDedupe == DdInit /\ [][DdNext]_vars

\* C8: deduplication is idempotent: applied to its own result it returns
\* that result, the same lines in the same order.
C8_Idempotent == dd_pc = "twice" => dd_again = dd_unique

C8_Witness ==
    /\ dd_pc = "twice"
    /\ Len(dd_lines) = 3
    /\ Len(dd_unique) = 2
    /\ dd_again = dd_unique

\* The claim's duplicates: both end point pairs match per coordinate within
\* the tolerance (less than 1 point apart, 2 half points), in the same
\* direction or reversed.
Near(a, b) == Abs(a[1] - b[1]) < 2 /\ Abs(a[2] - b[2]) < 2

Duplicates(a, b) ==
    \/ Near(a.p1, b.p1) /\ Near(a.p2, b.p2)
    \/ Near(a.p1, b.p2) /\ Near(a.p2, b.p1)

\* the lines of q at the positions in K, in the order of q
RECURSIVE Pick(_, _, _)
Pick(q, K, i) ==
    IF i > Len(q) THEN << >>
    ELSE IF i \in K THEN <<q[i]>> \o Pick(q, K, i + 1)
    ELSE Pick(q, K, i + 1)

\* C9: the result is a subsequence of the input, in input order; no two of
\* its lines are duplicates; a line is dropped if and only if an earlier
\* kept line is its duplicate, so of duplicates the first is the one kept.
C9_FirstOccurrenceKept ==
    dd_pc = "once" =>
      \E K \in SUBSET (1..Len(dd_lines)) :
        /\ dd_unique = Pick(dd_lines, K, 1)
        /\ \A i \in K : \A j \in K : i # j => ~Duplicates(dd_lines[i], dd_lines[j])
        /\ \A i \in 1..Len(dd_lines) :
             i \notin K <=> \E j \in K : j < i /\ Duplicates(dd_lines[i], dd_lines[j])

C9_Witness ==
    /\ dd_pc = "once"
    /\ Len(dd_lines) = 3
    /\ dd_unique = <<dd_lines[1], dd_lines[3]>>
    /\ Near(dd_lines[2].p1, dd_lines[1].p2) /\ Near(dd_lines[2].p2, dd_lines[1].p1)
    /\ ~Near(dd_lines[2].p1, dd_lines[1].p1)
    /\ Duplicates(dd_lines[3], dd_lines[2])
    /\ ~Duplicates(dd_lines[3], dd_lines[1])

(***************************************************************************)
(* calculate_orientation on its own.                                       *)
(***************************************************************************)
MaxCoord == 8

OrientPoints == (0..MaxCoord) \X (0..MaxCoord)

AngleInputs == {None} \cup {Some(a) : a \in {-180, -165, -90, -15, -14, 0, 14, 15, 16, 75, 76, 80, 90, 104, 105, 165, 166, 180, 270, 345}}

OrInit ==
    /\ or_pc = "input"
    /\ or_p1 \in OrientPoints
    /\ or_p2 \in OrientPoints
    /\ or_angle \in AngleInputs
    /\ or_result = ""
    /\ FcIdle /\ DimIdle /\ DdIdle /\ IrIdle /\ LbIdle

CalculateOrientation ==
    /\ or_pc = "input"
    /\ or_pc' = "done"
    /\ or_result' = calculate_orientation(or_p1, or_p2, or_angle)
    /\ UNCHANGED <<or_p1, or_p2, or_angle>>
    /\ UNCHANGED <<fc_vars, dim_vars, dd_vars, ir_vars, lb_vars>>

OrNext == CalculateOrientation

SpecOrient == OrInit /\ [][OrNext]_vars

\* C10: orientation is undirected: with the end points exchanged, and the
\* same optional angle, the result is the same.
C10_Undirected ==
    or_pc = "done" => or_result = calculate_orientation(or_p2, or_p1, or_angle)

C10_Witness ==
    /\ or_pc = "done"
    /\ or_angle = None
    /\ or_p1 = <<0, 0>>
    /\ or_p2 = <<8, 2>>
    /\ or_result = "vertical"

(***************************************************************************)
(* The /filter/ endpoint: one request is drawn and handled.                *)
(***************************************************************************)
MaxLines == 2
MaxTexts == 2
MaxRegions == 2

DrawingTypes ==
    {"plattegrond", "gevelaanzicht", "doorsnede", "detailtekening",
     "detailtekening_kozijn", "detailtekening_plattegrond", "bestektekening",
     "installatietekening", "unknown"}

\* (0,0)-(200,50) and (300,0)-(400,50), in half points
BlockA == <<0, 0, 400, 100>>
BlockB == <<600, 0, 800, 100>>

Region(label, coordinate_block) == [label |-> label, coordinate_block |-> coordinate_block]
Text(text, bounding_box) == [text |-> text, bounding_box |-> bounding_box]
Page(lines, texts) == [lines |-> lines, texts |-> texts]
Request(pages, drawing_type, regions) ==
    [vector_data |-> [pages |-> pages],
     vision_output |-> [drawing_type |-> drawing_type, regions |-> regions]]

\* One line against one region, for every row of the thresholds table: a
\* line inside block A, one touching A's buffer from outside, one a half
\* point beyond the buffer, one inside block B; every stroke width and
\* length at and next to the thresholds, and length 100; one label per
\* region type.
TableLines ==
    {Line(pq[1], pq[2], stroke_width, length, is_dashed, None) :
       pq \in {<<<<0, 0>>, <<200, 0>>>>, <<<<450, 0>>, <<480, 0>>>>,
               <<<<451, 0>>, <<480, 0>>>>, <<<<700, 50>>, <<700, 90>>>>},
       stroke_width \in {10, 15, 20},
       length \in {19, 20, 30, 40, 50, 100},
       is_dashed \in BOOLEAN}

TableRegions ==
    {Region(label, BlockA) :
       label \in {"Begane grond", "Voorgevel", "Doorsnede A-A", "Detail kozijn",
                  "Detail 3", "Hoek (detailtekening_plattegrond)", "Overzicht"}}

TableRequests ==
    {Request(<<Page(<<line>>, << >>)>>, drawing_type, <<region>>) :
       line \in TableLines, drawing_type \in DrawingTypes, region \in TableRegions}

\* Several lines against several regions: a line inside A that passes Step 1
\* of a bestektekening page and no region rule; its reversed twin half a
\* point off, which passes every rule; a line crossing A with both ends
\* outside; a diagonal past A's buffered corner that ends in B's buffer; a
\* thick, short, dashed line inside B.
LineA == Line(<<0, 0>>, <<200, 0>>, 15, 25, FALSE, None)
LineATwin == Line(<<200, 1>>, <<1, 0>>, 10, 60, FALSE, Some(90))
LineCrossing == Line(<<200, -100>>, <<200, 300>>, 10, 200, FALSE, None)
LineDiagonal == Line(<<400, 250>>, <<550, 100>>, 10, 100, FALSE, None)
LineDashed == Line(<<700, 50>>, <<700, 90>>, 20, 5, TRUE, None)

CoreLines == {LineA, LineATwin, LineCrossing, LineDiagonal, LineDashed}

\* the page types of the requests with several lines, texts or regions
CoreTypes ==
    {"plattegrond", "detailtekening", "bestektekening", "installatietekening", "unknown"}

CoreRegions ==
    {Region("Begane grond", BlockA), Region("Detail kozijn", BlockB),
     Region("Overzicht (doorsnede)", BlockA)}

LineRequests ==
    {Request(<<Page(lines, << >>)>>, drawing_type, regions) :
       lines \in SeqsUpTo(CoreLines, MaxLines),
       drawing_type \in CoreTypes,
       regions \in SeqsUpTo(CoreRegions, MaxRegions)}

\* Texts: a marked dimension inside A; a dimension between the two minimum
\* values whose box touches A's buffer from outside; a text that is no
\* dimension; a dimension a half point beyond A's buffer, reaching into B's.
CoreTexts ==
    {Text("+7555P", <<0, 0, 100, 40>>), Text("250", <<450, 0, 500, 40>>),
     Text("abc", <<0, 0, 100, 40>>), Text("600", <<451, 0, 700, 40>>)}

TextRequests ==
    {Request(<<Page(lines, texts)>>, drawing_type, regions) :
       lines \in {<< >>, <<LineA>>},
       texts \in SeqsUpTo(CoreTexts, MaxTexts),
       drawing_type \in CoreTypes,
       regions \in SeqsUpTo(CoreRegions, MaxRegions)}

\* a request without pages
NoPagesRequests ==
    {Request(<< >>, drawing_type, regions) :
       drawing_type \in DrawingTypes, regions \in SeqsUpTo(CoreRegions, 1)}

Init ==
    /\ pc = "ready"
    /\ request = None
    /\ filtered_lines = None
    /\ unique_filtered_lines = None
    /\ response = None
    /\ DimIdle /\ DdIdle /\ OrIdle /\ IrIdle /\ LbIdle

\* POST /filter/ with a request of each family
PostTableRequest ==
    pc = "ready" /\ \E input_data \in TableRequests : FilterClean(input_data)

PostLineRequest ==
    pc = "ready" /\ \E input_data \in LineRequests : FilterClean(input_data)

PostTextRequest ==
    pc = "ready" /\ \E input_data \in TextRequests : FilterClean(input_data)

PostNoPagesRequest ==
    pc = "ready" /\ \E input_data \in NoPagesRequests : FilterClean(input_data)

Next ==
    \/ PostTableRequest
    \/ PostLineRequest
    \/ PostTextRequest
    \/ PostNoPagesRequest

Spec == Init /\ [][Next]_vars

\* the request handled and what it held
Handled == pc = "done" /\ Len(request[1].vector_data.pages) > 0
ThePage == request[1].vector_data.pages[1]
TheType == request[1].vision_output.drawing_type
TheRegions == request[1].vision_output.regions
TheOutput == response[1].body[1]

\* C1: on an installatietekening page the filter returns an output with an
\* empty regions list, whatever the lines, texts and regions, and neither
\* the line filter nor the deduplication nor a per-region step has run.
C1_InstallatieShortCircuit ==
    Handled /\ TheType = "installatietekening" =>
      /\ response = Some(Returned([drawing_type |-> TheType, regions |-> << >>]))
      /\ filtered_lines = None
      /\ unique_filtered_lines = None

C1_Witness ==
    /\ Handled
    /\ TheType = "installatietekening"
    /\ Len(ThePage.lines) = 2
    /\ Len(ThePage.lines[1].p1) = 2
    /\ Len(TheRegions) = 2
    /\ TheOutput.regions = << >>

\* the thresholds table of the claim: S in tenths of a point, and L
TableS(type) ==
    IF type \in {"detailtekening", "detailtekening_kozijn", "detailtekening_plattegrond"}
    THEN 10 ELSE 15

TableL(type) ==
    CASE type = "plattegrond" -> 50
      [] type \in {"gevelaanzicht", "doorsnede"} -> 40
      [] type \in {"detailtekening", "detailtekening_kozijn",
                   "detailtekening_plattegrond"} -> 20
      [] OTHER -> 30

PassesTable(line, type) ==
    (line.stroke_width <= TableS(type) /\ line.length >= TableL(type)) \/ line.is_dashed

\* C2: in every region of a page that is not an installatietekening, the
\* region's lines are the deduplicated Step-1 survivors for which
\* segment_in_region holds and which, on a bestektekening page, pass the
\* table row of the sub-type resolved from the region's label; on every
\* other page the survivors already pass the page type's row.
C2_LineInclusion ==
    Handled /\ TheType # "installatietekening" =>
      /\ Len(TheOutput.regions) = Len(TheRegions)
      /\ \A r \in 1..Len(TheRegions) :
           LET Included(line) ==
                   /\ line_intersects_region(line.p1, line.p2, TheRegions[r].coordinate_block)
                   /\ TheType = "bestektekening" =>
                        PassesTable(line, parse_bestektekening_region_type(TheRegions[r].label))
               included == SelectSeq(unique_filtered_lines[1], Included)
           IN  TheOutput.regions[r].lines =
                 [i \in 1..Len(included) |-> FilteredLine(included[i])]
      /\ TheType # "bestektekening" =>
           \A i \in 1..Len(unique_filtered_lines[1]) :
             PassesTable(unique_filtered_lines[1][i], TheType)

C2_Witness ==
    /\ Handled
    /\ TheType = "bestektekening"
    /\ unique_filtered_lines[1] = <<LineA, LineCrossing>>
    /\ TheRegions = <<Region("Begane grond", BlockA), Region("Detail kozijn", BlockB)>>
    /\ TheOutput.regions[1].lines = <<FilteredLine(LineCrossing)>>
    /\ TheOutput.regions[2].lines = << >>

\* the claim's overlap: the text's box and the region grown by 25 points
\* (50 half points) share a point
BoxOverlaps(box, block) ==
    /\ box[1] <= block[3] + 50 /\ block[1] - 50 <= box[3]
    /\ box[2] <= block[4] + 50 /\ block[2] - 50 <= box[4]

EffectiveType(region) ==
    IF TheType = "bestektekening"
    THEN parse_bestektekening_region_type(region.label)
    ELSE TheType

TextCondition(text, region) ==
    /\ BoxOverlaps(text.bounding_box, region.coordinate_block)
    /\ is_valid_dimension(text.text, EffectiveType(region))

\* C3 as stated, for the regions of every page: the text appears in the
\* region's output exactly when its box overlaps the buffered region and it
\* is a valid dimension for the effective type.
C3_EveryPage ==
    Handled =>
      \A r \in 1..Len(TheRegions) : \A t \in 1..Len(ThePage.texts) :
        (/\ r <= Len(TheOutput.regions)
         /\ \E k \in 1..Len(TheOutput.regions[r].texts) :
              TheOutput.regions[r].texts[k] = FilteredText(ThePage.texts[t]))
        <=> TextCondition(ThePage.texts[t], TheRegions[r])

\* C3, amended to the pages that are not an installatietekening: the
\* region's texts are the page's texts, in page order and each as often as
\* the page holds it, whose box overlaps the buffered region and which are
\* valid dimensions for the effective type; the lines play no part.
C3_TextInclusion ==
    Handled /\ TheType # "installatietekening" =>
      /\ Len(TheOutput.regions) = Len(TheRegions)
      /\ \A r \in 1..Len(TheRegions) :
           LET Included(text) == TextCondition(text, TheRegions[r])
               included == SelectSeq(ThePage.texts, Included)
           IN  TheOutput.regions[r].texts =
                 [i \in 1..Len(included) |-> FilteredText(included[i])]

C3_Witness ==
    /\ Handled
    /\ TheType = "bestektekening"
    /\ ThePage.texts = <<Text("250", <<450, 0, 500, 40>>), Text("+7555P", <<0, 0, 100, 40>>)>>
    /\ TheRegions = <<Region("Begane grond", BlockA), Region("Overzicht (doorsnede)", BlockA)>>
    /\ Len(TheOutput.regions[1].texts) = 1
    /\ Len(TheOutput.regions[2].texts) = 2

\* the line and the region of the end-to-end scenario: p1 = (0,0),
\* p2 = (100,0), stroke 1.0, length 100, not dashed, no angle; (0,0)-(200,50)
ScenarioLine == Line(<<0, 0>>, <<200, 0>>, 10, 100, FALSE, None)

ScenarioHandled ==
    /\ Handled
    /\ TheType = "plattegrond"
    /\ ThePage.lines = <<ScenarioLine>>
    /\ Len(TheRegions) = 1
    /\ TheRegions[1].coordinate_block = BlockA

\* C11: for the plattegrond page holding only the scenario line and the one
\* region (0,0)-(200,50), the region's output holds exactly that line, with
\* orientation horizontal and midpoint (50,0) (200 quarter points).
C11_EndToEnd ==
    ScenarioHandled =>
      /\ response[1].status_code = 200
      /\ Len(TheOutput.regions) = 1
      /\ TheOutput.regions[1].lines =
           <<[length |-> 100, orientation |-> "horizontal", midpoint |-> [x |-> 200, y |-> 0]]>>

\* what the code returns in the scenario: the line, midpoint (50,0),
\* orientation vertical
C11_Witness ==
    /\ ScenarioHandled
    /\ TheOutput.regions[1].lines =
         <<[length |-> 100, orientation |-> "vertical", midpoint |-> [x |-> 200, y |-> 0]]>>

(***************************************************************************)
(* line_intersects_region on its own: segments between points at, next to  *)
(* and away from the edges of the buffered region.                         *)
(***************************************************************************)
MaxOffset == 1

\* (50,50)-(70,60), and a region that is a single point
RegionBlocks == {<<100, 100, 140, 120>>, <<100, 100, 100, 100>>}

\* coordinates far below, around the low buffered edge, inside, around the
\* high buffered edge of the first block, and far above
RegionXs ==
    {0, 120, 240} \cup {50 + d : d \in -MaxOffset..MaxOffset}
                  \cup {190 + d : d \in -MaxOffset..MaxOffset}

RegionYs ==
    {0, 110, 220} \cup {50 + d : d \in -MaxOffset..MaxOffset}
                  \cup {170 + d : d \in -MaxOffset..MaxOffset}

RegionPoints == RegionXs \X RegionYs

IrInit ==
    /\ ir_pc = "input"
    /\ ir_p1 \in RegionPoints
    /\ ir_p2 \in RegionPoints
    /\ ir_region \in RegionBlocks
    /\ ir_result = FALSE
    /\ FcIdle /\ DimIdle /\ DdIdle /\ OrIdle /\ LbIdle

LineIntersectsRegion ==
    /\ ir_pc = "input"
    /\ ir_pc' = "done"
    /\ ir_result' = line_intersects_region(ir_p1, ir_p2, ir_region)
    /\ UNCHANGED <<ir_p1, ir_p2, ir_region>>
    /\ UNCHANGED <<fc_vars, dim_vars, dd_vars, or_vars, lb_vars>>

IrNext == LineIntersectsRegion

SpecRegion == IrInit /\ [][IrNext]_vars

\* the values t in [0, 1] with lo <= a + t * d <= hi: a lower and an upper
\* end, each a fraction <<n, m>> with m > 0; none when lower > upper
TRange(a, d, lo, hi) ==
    IF d = 0
    THEN IF lo <= a /\ a <= hi THEN <<<<0, 1>>, <<1, 1>>>> ELSE <<<<1, 1>>, <<0, 1>>>>
    ELSE IF d > 0
         THEN <<<<lo - a, d>>, <<hi - a, d>>>>
         ELSE <<<<a - hi, -d>>, <<a - lo, -d>>>>

FractionLeq(f, g) == f[1] * g[2] <= g[1] * f[2]

\* some point p + t * (q - p), 0 <= t <= 1, lies in the closed rectangle b
SegmentMeetsBox(p, q, b) ==
    LET rx == TRange(p[1], q[1] - p[1], b[1], b[3])
        ry == TRange(p[2], q[2] - p[2], b[2], b[4])
    IN  \A low \in {rx[1], ry[1], <<0, 1>>} :
          \A high \in {rx[2], ry[2], <<1, 1>>} : FractionLeq(low, high)

\* the region grown by 25 points (50 half points) on every side
Expanded(region) == <<region[1] - 50, region[2] - 50, region[3] + 50, region[4] + 50>>

\* C12: segment_in_region(p1, p2, region) is true exactly when some point
\* of the segment lies in the closed rectangle that is the region grown by
\* 25 units on every side.
C12_SegmentInRegion ==
    ir_pc = "done" => (ir_result <=> SegmentMeetsBox(ir_p1, ir_p2, Expanded(ir_region)))

\* a segment past the corner (95,85) of the buffered rectangle: its
\* bounding box overlaps the rectangle, no point of it lies in the
\* rectangle, and it is excluded
C12_Witness ==
    /\ ir_pc = "done"
    /\ ir_region = <<100, 100, 140, 120>>
    /\ ir_p1 = <<189, 171>>
    /\ ir_p2 = <<191, 170>>
    /\ line_intersects_region_bbox_only(ir_p1, ir_p2, ir_region)
    /\ ~ir_result

\* C13: on every page type but installatietekening the output holds one
\* entry per input region, in input order and under the input label, also
\* for a region that receives no line and no text; parsed_drawing_type is
\* set exactly on a bestektekening page, to the classifier's result for the
\* region's label.
C13_OneEntryPerRegion ==
    Handled /\ TheType # "installatietekening" =>
      /\ response[1].status_code = 200
      /\ Len(TheOutput.regions) = Len(TheRegions)
      /\ \A r \in 1..Len(TheRegions) :
           /\ TheOutput.regions[r].label = TheRegions[r].label
           /\ TheOutput.regions[r].parsed_drawing_type =
                IF TheType = "bestektekening"
                THEN Some(parse_bestektekening_region_type(TheRegions[r].label))
                ELSE None

\* a bestektekening page with two regions, the second of which receives
\* nothing
C13_Witness ==
    /\ Handled
    /\ TheType = "bestektekening"
    /\ TheRegions = <<Region("Overzicht (doorsnede)", BlockA), Region("Detail kozijn", BlockB)>>
    /\ Len(TheOutput.regions) = 2
    /\ Len(TheOutput.regions[1].lines) = 1
    /\ TheOutput.regions[1].parsed_drawing_type = Some("doorsnede")
    /\ TheOutput.regions[2] =
         [label |-> "Detail kozijn", lines |-> << >>, texts |-> << >>,
          parsed_drawing_type |-> Some("detailtekening_kozijn")]

(***************************************************************************)
(* parse_bestektekening_region_type on its own.                            *)
(***************************************************************************)
MaxWords == 3

\* the words of a sequence, one after the other
RECURSIVE Concat(_)
Concat(words) == IF words = << >> THEN "" ELSE Head(words) \o Concat(Tail(words))

LabelWords ==
    {"grond ", "GEVEL ", "doorsnede ", "detail ", "raam ",
     "(doorsnede)", "( detailtekening )", "(Gevelaanzicht)", "(", ")"}

\* every tag and keyword, tags next to keywords of another type, tags that
\* are not of the closed set, parentheses that do not pair
SampleLabels ==
    {"", "Overzicht", "Blad 3 (plattegrond)", "Gevel (doorsnede)", "Kozijn (gevelaanzicht)",
     "Voorgevel (detailtekening)", "Grond (detailtekening_kozijn)",
     "Doorsnede A (detailtekening_plattegrond)", "Hoek (installatietekening)",
     "Hoek (bestektekening)", "Hoek (unknown)", "Hoek ()", "Hoek (detail)",
     "Eerste Verdieping", "Plattegrond kelder", "Zijaanzicht", "Voorgevel",
     "Doorsnede B-B", "Detail kozijn", "Detail raam", "Detail deur", "Detail 3",
     "kozijn", "Deur en raam", "Detail gevel", "Doorsnede verdieping",
     "(detailtekening_kozijn) (plattegrond)", "(doorsnede", "doorsnede)",
     ")detailtekening(", "((doorsnede))", "(DOORSNEDE) detail", "(doorsnede,detail) deur"}

LabelTexts == SampleLabels \cup {Concat(words) : words \in SeqsUpTo(LabelWords, MaxWords)}

LbInit ==
    /\ lb_pc = "input"
    /\ lb_label \in LabelTexts
    /\ lb_result = ""
    /\ FcIdle /\ DimIdle /\ DdIdle /\ OrIdle /\ IrIdle

ParseBestektekeningRegionType ==
    /\ lb_pc = "input"
    /\ lb_pc' = "done"
    /\ lb_result' = parse_bestektekening_region_type(lb_label)
    /\ UNCHANGED lb_label
    /\ UNCHANGED <<fc_vars, dim_vars, dd_vars, or_vars, ir_vars>>

LbNext == ParseBestektekeningRegionType

SpecLabel == LbInit /\ [][LbNext]_vars

\* the positions of the character c in s
Positions(s, c) == {i \in 1..Len(s) : CharAt(s, i) = c}

Least(S) == CHOOSE i \in S : \A j \in S : i <= j

\* the trimmed text between the first "(" and the first ")" of the label;
\* none when one of them is missing or the first ")" comes first
TagOf(label) ==
    LET opens == Positions(label, "(")
        closes == Positions(label, ")")
    IN  IF opens = {} \/ closes = {} THEN None
        ELSE IF Least(closes) < Least(opens) THEN None
        ELSE Some(strip(SubSeq(label, Least(opens) + 1, Least(closes) - 1)))

TagTypes ==
    {"plattegrond", "doorsnede", "gevelaanzicht", "detailtekening",
     "detailtekening_kozijn", "detailtekening_plattegrond"}

\* the keyword rules in their priority order: a rule applies when every
\* word of "all" and, if "any" holds words, one of them occurs in the
\* lower-cased label
KeywordRules ==
    <<[all |-> {}, any |-> {"plattegrond", "grond", "verdieping"}, type |-> "plattegrond"],
      [all |-> {}, any |-> {"gevel", "aanzicht"}, type |-> "gevelaanzicht"],
      [all |-> {"doorsnede"}, any |-> {}, type |-> "doorsnede"],
      [all |-> {"detail"}, any |-> {"kozijn", "raam", "deur"}, type |-> "detailtekening_kozijn"],
      [all |-> {"detail"}, any |-> {}, type |-> "detailtekening"]>>

RuleApplies(rule, label) ==
    /\ \A keyword \in rule.all : Contains(lower(label), keyword)
    /\ rule.any # {} => \E keyword \in rule.any : Contains(lower(label), keyword)

KeywordType(label) ==
    LET applying == {k \in 1..Len(KeywordRules) : RuleApplies(KeywordRules[k], label)}
    IN  IF applying = {} THEN "unknown" ELSE KeywordRules[Least(applying)].type

\* C14: classify_region_label returns the trimmed text between the first
\* "(" and the first ")" when that text is one of the six sub-types,
\* whatever keywords the label holds; in every other case the result of the
\* case-insensitive keyword rules in their priority order, or unknown.
C14_ClassifyRegionLabel ==
    lb_pc = "done" =>
      lb_result =
        IF TagOf(lb_label) # None /\ TagOf(lb_label)[1] \in TagTypes
        THEN TagOf(lb_label)[1]
        ELSE KeywordType(lb_label)

\* a tag wins over a keyword of higher priority
C14_Witness ==
    /\ lb_pc = "done"
    /\ lb_label = "GEVEL ( detailtekening )grond "
    /\ lb_result = "detailtekening"

\* C15: a request without pages is reported as a failure with status 400
\* and detail "No pages in vector_data", and no output is produced; every
\* call ends with a complete per-region output or with a failure.
C15_NoPagesIs400 ==
    pc = "done" =>
      IF Len(request[1].vector_data.pages) = 0
      THEN response = Some(Raised(400, "No pages in vector_data"))
      ELSE \/ /\ response[1].status_code = 200
              /\ response[1].body # None
              /\ Len(TheOutput.regions) \in {0, Len(TheRegions)}
           \/ /\ response[1].status_code = 500
              /\ response[1].body = None

\* what the code reports for a request without pages: status 500
C15_Witness ==
    /\ pc = "done"
    /\ Len(request[1].vector_data.pages) = 0
    /\ response[1].status_code = 500
    /\ response[1].body = None

\* the sub-types a region of a bestektekening page resolves to
SubTypes ==
    {"plattegrond", "gevelaanzicht", "doorsnede", "detailtekening",
     "detailtekening_kozijn", "detailtekening_plattegrond", "unknown"}

\* C16: on a bestektekening page Step 1 removes no line that a region could
\* accept: a line of the page that passes the table row of some sub-type is
\* among the Step-1 survivors.
C16_Step1Permissive ==
    Handled /\ TheType = "bestektekening" =>
      \A i \in 1..Len(ThePage.lines) : \A type \in SubTypes :
        PassesTable(ThePage.lines[i], type) =>
          \E k \in 1..Len(filtered_lines[1]) : filtered_lines[1][k] = ThePage.lines[i]

\* a line that only the detailtekening rows accept, at the length of the
\* Step-1 rule, survives Step 1
C16_Witness ==
    /\ Handled
    /\ TheType = "bestektekening"
    /\ Len(ThePage.lines) = 1
    /\ ThePage.lines[1].stroke_width = 10
    /\ ThePage.lines[1].length = 20
    /\ ~ThePage.lines[1].is_dashed
    /\ PassesTable(ThePage.lines[1], "detailtekening")
    /\ ~PassesTable(ThePage.lines[1], "unknown")
    /\ filtered_lines = Some(ThePage.lines)

\* C17: deduplicating before the per-region rule loses no geometry on a
\* bestektekening page: for every region and every line of the page that
\* passes the table row of the region's sub-type and for which
\* segment_in_region holds, the region's output holds a line whose end
\* points match that line's within the tolerance, in either direction.
C17_NoGeometryLost ==
    Handled /\ TheType = "bestektekening" =>
      \A r \in 1..Len(TheRegions) : \A i \in 1..Len(ThePage.lines) :
        LET type == parse_bestektekening_region_type(TheRegions[r].label)
            block == TheRegions[r].coordinate_block
            line == ThePage.lines[i]
        IN  PassesTable(line, type) /\ line_intersects_region(line.p1, line.p2, block) =>
              \E k \in 1..Len(unique_filtered_lines[1]) :
                LET kept == unique_filtered_lines[1][k]
                IN  /\ Duplicates(kept, line)
                    /\ PassesTable(kept, type)
                    /\ line_intersects_region(kept.p1, kept.p2, block)
                    /\ \E j \in 1..Len(TheOutput.regions[r].lines) :
                         TheOutput.regions[r].lines[j] = FilteredLine(kept)

\* the twin that the region accepts is dropped as a duplicate of a line
\* that the region rejects: the region receives neither
C17_Witness ==
    /\ Handled
    /\ TheType = "bestektekening"
    /\ ThePage.lines = <<LineA, LineATwin>>
    /\ TheRegions = <<Region("Begane grond", BlockA)>>
    /\ filtered_lines = Some(<<LineA, LineATwin>>)
    /\ unique_filtered_lines = Some(<<LineA>>)
    /\ PassesTable(LineATwin, "plattegrond")
    /\ line_intersects_region(LineATwin.p1, LineATwin.p2, BlockA)
    /\ TheOutput.regions[1].lines = << >>

\* every pattern has at most one way to match a text: the match re.match
\* returns is the only one
UniqueMatch ==
    \A k \in 1..Len(patterns) : Cardinality(Matches(patterns[k], strip(dim_text))) <= 1
====
